---------------------------- MODULE Spec2Model ----------------------------
(***************************************************************************)
(* Legal-Document-Analyzer: the provider orchestration layer.              *)
(*                                                                         *)
(* Two variants of the module api-integrations.js exist in the repository  *)
(* and a page loads one of them:                                           *)
(*   "enhanced": the object legalAPIs of the multi-AI orchestrator, which  *)
(*               reads API_CONFIG (setup-api-keys.js) and the registry     *)
(*               availableServices;                                        *)
(*   "basic":    class LegalDocumentAPIs, which reads this.config.         *)
(*                                                                         *)
(* A task is an async function: it runs to its next await, is suspended    *)
(* while the remote call is in flight, and is resumed by the response.     *)
(* Every await on a remote call is one action boundary; configuration      *)
(* operations are synchronous and may run while a task is suspended.       *)
(***************************************************************************)
EXTENDS Naturals, Sequences, FiniteSets

VARIABLES
    program,            \* which variant of api-integrations.js the page loaded
    API_CONFIG,         \* setup-api-keys.js: API_CONFIG.<SLOT>.API_KEY
    localStorage,       \* the browser's stored keys, one item per slot
    availableServices,  \* legalAPIs.availableServices
    domLoaded,          \* the DOMContentLoaded handler has run
    config,             \* LegalDocumentAPIs: this.config.<name>.apiKey
    validated,          \* what the last loadAPIKeys or setAPIKeys returned
    op,                 \* the task operation in flight, or "none"
    args,               \* its arguments
    pc,                 \* the await the task is suspended at
    aiService,          \* local aiService of the task
    backupIdx,          \* position of the backup loop in AI_STRATEGY.BACKUP_AI
    enrich,             \* what the enrichment added to the request
    searchResults,      \* local searchResults of performSemanticSearch
    calls,              \* remote provider calls of the task, in order
    nlpCalls,           \* remote enrichment calls of the task, in order
    result,             \* what the caller receives
    twin                \* a second run of the task, given the same answers

vars == <<program, API_CONFIG, localStorage, availableServices, domLoaded,
          config, validated, op, args, pc, aiService, backupIdx, enrich,
          searchResults, calls, nlpCalls, result, twin>>

cfgVars == <<program, API_CONFIG, localStorage, availableServices, domLoaded,
             config, validated>>

taskVars == <<op, args, pc, aiService, backupIdx, enrich, searchResults,
              calls, nlpCalls, result, twin>>

(***************************************************************************)
(* Configuration: setup-api-keys.js                                        *)
(***************************************************************************)
Slots == {"OPENAI", "GEMINI", "GOOGLE_TRANSLATE", "GOOGLE_DOCUMENT_AI",
          "GOOGLE_NATURAL_LANGUAGE", "ANTHROPIC", "HUGGINGFACE"}

\* '' is the empty key, "k" a key
NoKey == ""
KeyValues == {NoKey, "k"}

\* JavaScript truthiness of a key string
Truthy(k) == k # NoKey

\* a || b on key strings
OrElse(a, b) == IF Truthy(a) THEN a ELSE b

\* the text-generation providers, in the order initializeServices pushes them
AIRegistryOrder == <<"openai", "gemini", "anthropic", "huggingface">>
AIProviders == {"openai", "gemini", "anthropic", "huggingface"}

SlotOf(ai) ==
    CASE ai = "openai" -> "OPENAI"
      [] ai = "gemini" -> "GEMINI"
      [] ai = "anthropic" -> "ANTHROPIC"
      [] ai = "huggingface" -> "HUGGINGFACE"

\* validateAPIKeys(): the names pushed onto availableAI
validateAPIKeys_availableAI(cfg) ==
    SelectSeq(AIRegistryOrder, LAMBDA ai : Truthy(cfg[SlotOf(ai)]))

\* validateAPIKeys(): the entries pushed onto missingKeys
validateAPIKeys_missingKeys(cfg) ==
    (IF Len(validateAPIKeys_availableAI(cfg)) = 0
     THEN <<"At least one AI service">> ELSE <<>>)
    \o (IF ~Truthy(cfg["GOOGLE_TRANSLATE"])
        THEN <<"Google Translate API key (for translation)">> ELSE <<>>)

\* a validation that asks for a text-generation key only
validateAPIKeys_AIOnly(cfg) ==
    Len(validateAPIKeys_availableAI(cfg)) # 0

\* validateAPIKeys(): false if missingKeys.length > 0, true otherwise
validateAPIKeys(cfg) ==
    ~(Len(validateAPIKeys_missingKeys(cfg)) > 0)

\* loadAPIKeys() in the browser: every slot takes the stored item, if any
loadAPIKeys_Config(cfg, store) ==
    [s \in Slots |-> OrElse(store[s], cfg[s])]

\* a setter that also stores the empty entries of keys
setAPIKeys_Config_Overwrites(cfg, keys) == keys

\* a setter that fills the empty slots only
setAPIKeys_Config_OnlyFills(cfg, keys) ==
    [s \in Slots |-> IF Truthy(cfg[s]) THEN cfg[s] ELSE keys[s]]

\* setAPIKeys(keys): the slots for which keys holds a truthy value
setAPIKeys_Config(cfg, keys) ==
    [s \in Slots |-> IF Truthy(keys[s]) THEN keys[s] ELSE cfg[s]]

setAPIKeys_Store(store, keys) ==
    [s \in Slots |-> IF Truthy(keys[s]) THEN keys[s] ELSE store[s]]

(***************************************************************************)
(* Capability registry: legalAPIs.initializeServices                       *)
(***************************************************************************)
\* a registry that lists every provider, keyed or not
PushAvailable_Always(cfg, i, acc) == AIRegistryOrder

RECURSIVE PushAvailable(_, _, _)
\* the pushes of initializeServices, in source order
PushAvailable(cfg, i, acc) ==
    IF i > Len(AIRegistryOrder) THEN acc
    ELSE PushAvailable(cfg, i + 1,
            IF Truthy(cfg[SlotOf(AIRegistryOrder[i])])
            THEN Append(acc, AIRegistryOrder[i]) ELSE acc)

initializeServices_Result(cfg) ==
    [ai          |-> PushAvailable(cfg, 1, <<>>),
     nlp         |-> Truthy(cfg["GOOGLE_NATURAL_LANGUAGE"]),
     documentAI  |-> Truthy(cfg["GOOGLE_DOCUMENT_AI"]),
     translation |-> Truthy(cfg["GOOGLE_TRANSLATE"])]

\* availableServices as the object literal declares it
NoServices == [ai |-> <<>>, nlp |-> FALSE, documentAI |-> FALSE,
               translation |-> FALSE]

Range(s) == {s[i] : i \in 1..Len(s)}

\* this.availableServices.ai.includes(x)
Includes(s, x) == x \in Range(s)

(***************************************************************************)
(* Task router: legalAPIs._selectBestAI, AI_STRATEGY                       *)
(***************************************************************************)
\* the value null
Null == "null"

\* a backup list in the opposite order
BACKUP_AI_Reversed == <<"huggingface", "anthropic", "openai", "gemini">>

BACKUP_AI == <<"gemini", "openai", "anthropic", "huggingface">>

USE_SPECIALIZED_MODELS == TRUE

KnownTaskTypes == {"legal_qa", "summarization", "search", "comparison",
                   "risk_analysis"}

\* a table with one order for every task
preferences_OneOrder(taskType) ==
    <<"openai", "gemini", "anthropic", "huggingface">>

preferences(taskType) ==
    CASE taskType = "legal_qa" ->
            <<"gemini", "openai", "anthropic", "huggingface">>
      [] taskType = "summarization" ->
            <<"openai", "gemini", "anthropic", "huggingface">>
      [] taskType = "search" -> <<"gemini", "openai", "anthropic">>
      [] taskType = "comparison" -> <<"openai", "gemini", "anthropic">>
      [] taskType = "risk_analysis" -> <<"gemini", "openai", "anthropic">>

RECURSIVE FirstIncluded(_, _, _)
\* for (const ai of list) if (available.includes(ai)) return ai
FirstIncluded(list, available, i) ==
    IF i > Len(list) THEN Null
    ELSE IF Includes(available, list[i]) THEN list[i]
    ELSE FirstIncluded(list, available, i + 1)

\* a router that ignores the preference table
_selectBestAI_RegistryOrder(taskType, available) ==
    IF Len(available) > 0 THEN available[1] ELSE Null

\* a router with a hard-wired default instead of null
_selectBestAI_DefaultsToOpenAI(taskType, available) ==
    LET taskPreferences == IF taskType \in KnownTaskTypes
                           THEN preferences(taskType) ELSE available
        preferred == FirstIncluded(taskPreferences, available, 1)
    IN  IF preferred # Null THEN preferred
        ELSE IF Len(available) > 0 THEN available[1] ELSE "openai"

_selectBestAI(taskType, available) ==
    LET taskPreferences == IF taskType \in KnownTaskTypes
                           THEN preferences(taskType) ELSE available
        preferred == FirstIncluded(taskPreferences, available, 1)
    IN  IF preferred # Null THEN preferred
        ELSE IF Len(available) > 0 THEN available[1] ELSE Null

(***************************************************************************)
(* Provider adapters.  A remote call ends in one of these ways:            *)
(*   "network"      fetch rejects                                          *)
(*   "http"         a response with response.ok false                      *)
(*   "nocontainer"  success status, the payload lacks the array the        *)
(*                  adapter indexes (choices, candidates, content, ...)    *)
(*   "noleaf"       success status, the array element lacks the text field *)
(*   "emptytext"    success status, the text field is ''                   *)
(*   "text"         success status, the text field is a non-empty string   *)
(* An adapter either throws or returns a value: "text", "empty" ('') or    *)
(* "undefined".                                                            *)
(***************************************************************************)
Responses == {"network", "http", "nocontainer", "noleaf", "emptytext", "text"}

Throw == [tag |-> "throw", value |-> "undefined"]
Return(v) == [tag |-> "return", value |-> v]

\* JavaScript truthiness of a returned value
TruthyValue(v) == v = "text"

\* fetch, the response.ok check, response.json(), then the field access
\* data.choices[0].message.content
_callOpenAI(r) ==
    CASE r = "network" -> Throw
      [] r = "http" -> Throw
      [] r = "nocontainer" -> Throw
      [] r = "noleaf" -> Return("undefined")
      [] r = "emptytext" -> Return("empty")
      [] r = "text" -> Return("text")

\* data.candidates[0].content.parts[0].text
_callGemini(r) ==
    CASE r = "network" -> Throw
      [] r = "http" -> Throw
      [] r = "nocontainer" -> Throw
      [] r = "noleaf" -> Return("undefined")
      [] r = "emptytext" -> Return("empty")
      [] r = "text" -> Return("text")

\* data.content[0].text
_callAnthropic(r) ==
    CASE r = "network" -> Throw
      [] r = "http" -> Throw
      [] r = "nocontainer" -> Throw
      [] r = "noleaf" -> Return("undefined")
      [] r = "emptytext" -> Return("empty")
      [] r = "text" -> Return("text")

\* data[0].generated_text || data[0].summary_text: '' || undefined
_callHuggingFace(r) ==
    CASE r = "network" -> Throw
      [] r = "http" -> Throw
      [] r = "nocontainer" -> Throw
      [] r = "noleaf" -> Return("undefined")
      [] r = "emptytext" -> Return("undefined")
      [] r = "text" -> Return("text")

\* the switch of _callAIService, for a service it knows
_callAIService(service, r) ==
    CASE service = "openai" -> _callOpenAI(r)
      [] service = "gemini" -> _callGemini(r)
      [] service = "anthropic" -> _callAnthropic(r)
      [] service = "huggingface" -> _callHuggingFace(r)

\* the default branch of the switch: throw new Error('Unknown AI service')
_callAIService_Known(service) == service \in AIProviders

\* translateText: data.data.translations[0].translatedText, then
\* translation.replace(...).trim(), which throws on undefined
translateText_Fetch(r) ==
    CASE r = "network" -> Throw
      [] r = "http" -> Throw
      [] r = "nocontainer" -> Throw
      [] r = "noleaf" -> Throw
      [] r = "emptytext" -> Return("empty")
      [] r = "text" -> Return("text")

(***************************************************************************)
(* Enrichment: legalAPIs._analyzeWithNaturalLanguage.  The entities of a   *)
(* payload are modelled by their types.                                    *)
(***************************************************************************)
\* _formatNLPAnalysis names the first 10 entities: entities.slice(0, 10)
ENTITY_CAP == 10

\* "many": a payload with more entities than the cap
NLPResponses == {"network", "http", "nofield", "some", "many"}

NLPEntities(r) ==
    CASE r = "some" -> <<"PERSON", "LOCATION">>
      [] r = "many" -> [i \in 1..(ENTITY_CAP + 1) |->
                            IF i = 1 THEN "LOCATION" ELSE "PERSON"]
      [] OTHER -> <<>>

NLPReturn(e, score) == [tag |-> "return", entities |-> e, score |-> score]
NLPThrow == [tag |-> "throw", entities |-> <<>>, score |-> 0]

\* an analysis without its catch block
_analyzeWithNaturalLanguage_Rethrows(r) ==
    CASE r = "network" -> NLPThrow
      [] r = "http" -> NLPThrow
      [] r = "nofield" -> NLPReturn(<<>>, 0)
      [] r \in {"some", "many"} -> NLPReturn(NLPEntities(r), 1)

\* data.entities || [], data.documentSentiment || { score: 0 }; the catch
\* block returns { entities: [], sentiment: { score: 0 } }
_analyzeWithNaturalLanguage(r) ==
    CASE r = "network" -> NLPReturn(<<>>, 0)
      [] r = "http" -> NLPReturn(<<>>, 0)
      [] r = "nofield" -> NLPReturn(<<>>, 0)
      [] r \in {"some", "many"} -> NLPReturn(NLPEntities(r), 1)

\* what a task adds to its request from the analysis; NoEnrichment when the
\* enrichment step is skipped
\* named: the number of entities the added text names
NoEnrichment == [entities |-> "absent", sentiment |-> "absent", named |-> 0]

\* array.slice(0, n)
Slice(s, n) == SubSeq(s, 1, IF Len(s) < n THEN Len(s) ELSE n)

\* askLegalQuestion: Key entities: <names> || 'None detected',
\* Document sentiment: <score> || 'neutral'
askLegalQuestion_Enrich(nlp) ==
    [entities  |-> IF Len(nlp.entities) > 0 THEN "names" ELSE "None detected",
     sentiment |-> IF nlp.score # 0 THEN "score" ELSE "neutral",
     named     |-> Len(nlp.entities)]

\* _formatNLPAnalysis: Key entities detected: <...>. Document sentiment: <...>
\* with entities = nlpResult.entities.slice(0, 10)
_formatNLPAnalysis(nlp) ==
    LET entities == Slice(nlp.entities, ENTITY_CAP)
    IN  [entities  |-> IF Len(entities) > 0 THEN "names" ELSE "none",
         sentiment |-> IF nlp.score > 0 THEN "positive" ELSE "neutral",
         named     |-> Len(entities)]

\* translateText: the ORGANIZATION and PERSON entities, appended as a note
\* when there is at least one
translateText_Enrich(nlp) ==
    LET entities == SelectSeq(nlp.entities,
                        LAMBDA t : t = "ORGANIZATION" \/ t = "PERSON")
    IN  IF Len(entities) > 0
        THEN [entities |-> "names", sentiment |-> "absent",
              named |-> Len(entities)]
        ELSE NoEnrichment

(***************************************************************************)
(* Results.  A task either returns a value or throws to its caller.  The   *)
(* value is a text, modelled by where it comes from (source), what kind of *)
(* value it is, and, for the templates of the code, by its lines.          *)
(***************************************************************************)
\* A string has no fields; an object has the fields of its literal.
NoResult == [status |-> "none", source |-> "none", value |-> "none",
             lines |-> <<>>, fields |-> {}]

Thrown == [status |-> "thrown", source |-> "none", value |-> "none",
           lines |-> <<>>, fields |-> {}]

\* the text a provider generated
FromProvider(service, v) ==
    [status |-> "returned", source |-> service, value |-> v, lines |-> <<>>,
     fields |-> {}]

Placeholder(template) ==
    [status |-> "returned", source |-> "fallback", value |-> "text",
     lines |-> template, fields |-> {}]

\* an object literal returned by an operation
Object(source, v, fields) ==
    [status |-> "returned", source |-> source, value |-> v, lines |-> <<>>,
     fields |-> fields]

\* the fields of the object literals of the code
EntityFields == {"persons", "organizations", "locations", "dates",
                 "legal_refs"}
DocumentFields == {"originalFile", "extractedText", "entities", "structure",
                   "ocrConfidence", "naturalLanguageAnalysis",
                   "legalEntities"}
RiskFields == {"nlpAnalysis", "aiAssessment", "timestamp"}
RiskErrorFields == {"error", "details"}

\* legalAPIs._getFallbackLegalResponse
_getFallbackLegalResponse ==
    Placeholder(<<"Legal Question: <question>",
        "This is a demonstration response. Configure your AI services for full functionality.",
        "Relevant Indian Legal Framework",
        "Recommended Actions",
        "Legal Resources",
        "For personalized legal advice, please consult with a licensed attorney.">>)

\* legalAPIs._getFallbackSummary
_getFallbackSummary ==
    Placeholder(<<"Enhanced Document Summary (<summaryType> - <summaryLength>)",
        "This is a demonstration summary. Configure your AI services for intelligent analysis.",
        "Multi-AI Analysis Available",
        "Setup Required: Configure your API keys to unlock all AI-powered features">>)

\* the language pairs of sampleTranslations
SamplePairs == {"en-hi", "en-ta", "en-bn", "en-te", "en-mr", "en-gu"}

\* legalAPIs._getFallbackTranslation: a sentence in the target language for
\* the sample pairs, the English template otherwise
_getFallbackTranslation(langKey) ==
    IF langKey \in SamplePairs
    THEN Placeholder(<<"<in the target language> This is an advanced translation system. Configure your API keys for all AI features.">>)
    ELSE Placeholder(<<"Enhanced Translation System",
        "Original text: <text>",
        "Configure Google Translate API for professional legal document translation",
        "Sample translation shown - configure APIs for full functionality.">>)

\* legalAPIs._getFallbackSearchResults
_getFallbackSearchResults ==
    Placeholder(<<"Multi-AI Semantic Search Results for: <query>",
        "Configure your AI services for comprehensive search capabilities.",
        "Enhanced Search Features Available",
        "Sample Legal Database Results",
        "Setup Instructions: Configure your API keys to unlock intelligent semantic search">>)

\* legalAPIs._combineSearchResults: the placeholder for no results, else a
\* header, one section per entry of searchResults, and a footer
_combineSearchResults(results) ==
    IF Len(results) = 0 THEN _getFallbackSearchResults
    ELSE [status |-> "returned", source |-> "combined", value |-> "text",
          lines |-> <<"Enhanced Semantic Search Results for: <query>",
                      "Multi-AI Analysis Complete">>,
          fields |-> {}]

\* LegalDocumentAPIs.getMockSummary: mockSummaries[type] ||
\* mockSummaries.comprehensive
getMockSummary(type) ==
    CASE type = "executive" ->
            Placeholder(<<"Executive Summary: This document represents a significant legal agreement requiring immediate attention.">>)
      [] type = "key-points" ->
            Placeholder(<<"Document Type: Legal Contract",
                          "Parties: Multiple entities involved",
                          "Compliance: Follows Indian legal standards">>)
      [] type = "timeline" ->
            Placeholder(<<"Timeline of Events:",
                          "Document Creation: [Date to be extracted]">>)
      [] OTHER ->
            Placeholder(<<"This legal document appears to be a comprehensive contract or agreement.",
                          "The document follows Indian legal formatting and includes relevant statutory references.">>)

\* LegalDocumentAPIs.getMockLegalAnswer
getMockLegalAnswer ==
    Placeholder(<<"Thank you for your legal question: <question>",
        "This is a mock response. For accurate legal advice, please consult with a qualified legal professional familiar with Indian law.",
        "Based on general legal principles in India",
        "Please note: This is not legal advice and should not be relied upon for legal decisions.">>)

\* LegalDocumentAPIs.getMockTranslation
getMockTranslation ==
    Placeholder(<<"[Translation from <sourceLang> to <targetLang>]: <text>",
        "[This is a mock translation. Please use a proper translation service for accurate results.]">>)

\* LegalDocumentAPIs.getMockEntities
getMockEntities ==
    [Placeholder(<<"persons: John Doe, Jane Smith",
        "organizations: ABC Corporation, XYZ Ltd.",
        "locations: Mumbai, New Delhi",
        "dates: 2023-01-15, 2023-12-31",
        "legal_refs: Indian Contract Act 1872, Companies Act 2013">>)
     EXCEPT !.fields = EntityFields]

\* legalAPIs._getFallbackDocumentProcessing
_getFallbackDocumentProcessing ==
    [Placeholder(<<"Document processing requires API configuration.">>)
     EXCEPT !.fields = DocumentFields]

\* the catch block of compareDocuments returns this string
compareDocuments_catch ==
    Placeholder(<<"Document comparison failed. Please configure AI services.">>)

\* the catch block of assessLegalRisk returns
\* { error: 'Risk assessment failed', details: error.message }
assessLegalRisk_catch ==
    [status |-> "returned", source |-> "error", value |-> "error",
     lines |-> <<"Risk assessment failed">>, fields |-> RiskErrorFields]

\* LegalDocumentAPIs.getMockSearchResults
getMockSearchResults ==
    Placeholder(<<"Search results for <query>",
        "1. Relevant Section Found (Confidence: 8/10)",
        "2. Key Match (Confidence: 6/10)",
        "3. Legal Concept (Confidence: 7/10)",
        "This is a mock search result. Actual implementation would provide more detailed analysis.">>)

(***************************************************************************)
(* Arguments of the task operations.  A text is undefined (the argument    *)
(* is missing) or a string of some length.                                 *)
(***************************************************************************)
\* translateText enriches only when text.length > 100
NLP_MIN_LENGTH == 100

Undefined == [defined |-> FALSE, len |-> 0]
Text(n) == [defined |-> TRUE, len |-> n]

NoArgs == [text |-> Undefined, context |-> Text(0),
           summaryType |-> "none", langKey |-> "none"]

ValidSummaryTypes == {"comprehensive", "executive", "keypoints", "timeline"}
ValidBasicSummaryTypes == {"comprehensive", "executive", "key-points",
                           "timeline"}

\* the inputs enumerated
DocumentTexts == {Undefined, Text(NLP_MIN_LENGTH + 1)}
TranslateTexts == {Undefined, Text(NLP_MIN_LENGTH), Text(NLP_MIN_LENGTH + 1)}
Contexts == {Text(0), Text(NLP_MIN_LENGTH), Text(NLP_MIN_LENGTH + 1)}
\* the texts given to legalAPIs.summarizeDocument: also one at the threshold
SummaryTexts == DocumentTexts \cup {Text(NLP_MIN_LENGTH)}
SummaryTypes == {"comprehensive", "bogus"}
LangKeys == {"en-hi", "hi-en"}

(***************************************************************************)
(* The task in flight, as a record of its locals, and its steps as         *)
(* functions from one suspension to the next.                              *)
(***************************************************************************)
Task == [pc |-> pc, aiService |-> aiService, backupIdx |-> backupIdx,
         enrich |-> enrich, searchResults |-> searchResults,
         calls |-> calls, nlpCalls |-> nlpCalls, result |-> result]

NewTask == [pc |-> "idle", aiService |-> Null, backupIdx |-> 0,
            enrich |-> NoEnrichment, searchResults |-> <<>>,
            calls |-> <<>>, nlpCalls |-> <<>>, result |-> NoResult]

\* the task becomes t
Becomes(t) ==
    /\ pc' = t.pc
    /\ aiService' = t.aiService
    /\ backupIdx' = t.backupIdx
    /\ enrich' = t.enrich
    /\ searchResults' = t.searchResults
    /\ calls' = t.calls
    /\ nlpCalls' = t.nlpCalls
    /\ result' = t.result

\* Both runs of the task take the step F: the run in flight and its twin,
\* which was started with the same arguments under the same configuration
\* and receives the same answers.
Runs(F(_)) ==
    /\ Becomes(F(Task))
    /\ twin' = F(twin)

\* return res, or throw, to the caller
Done(t, res) == [t EXCEPT !.pc = "done", !.result = res]

\* a fetch to a provider with the key read at that moment; the task is
\* suspended at newpc until the response
Invoke(t, service, key, newpc) ==
    [t EXCEPT !.pc = newpc,
              !.calls = Append(@, [service |-> service, key |-> key,
                                   response |-> "pending"])]

\* the fetch of _analyzeWithNaturalLanguage
InvokeNLP(t, cfg) ==
    [t EXCEPT !.pc = "nlp",
              !.nlpCalls = Append(@, [key |-> cfg["GOOGLE_NATURAL_LANGUAGE"],
                                      response |-> "pending"])]

\* How a remote call ended, in the terms of the error taxonomy: a transport
\* failure, a malformed payload, a well-formed payload with an empty text,
\* or a text.  The log of a task's calls records this.
Outcome(r) ==
    CASE r \in {"network", "http"} -> "transport"
      [] r \in {"nocontainer", "noleaf", "nofield"} -> "malformed"
      [] r = "emptytext" -> "empty"
      [] r \in {"text", "some", "many"} -> "ok"

\* the call in flight has been answered by r
Responded(t, r) ==
    [t EXCEPT !.calls = [@ EXCEPT ![Len(@)].response = Outcome(r)]]

NLPResponded(t, r) ==
    [t EXCEPT !.nlpCalls = [@ EXCEPT ![Len(@)].response = Outcome(r)]]

\* the catch block of each operation of legalAPIs
askLegalQuestion_catch == _getFallbackLegalResponse
\* a catch block that rethrows
summarizeDocument_Rethrows == Thrown
summarizeDocument_catch == _getFallbackSummary
translateText_catch(langKey) == _getFallbackTranslation(langKey)
performSemanticSearch_catch == _getFallbackSearchResults

Catch(o, a) ==
    CASE o = "askLegalQuestion" -> askLegalQuestion_catch
      [] o = "summarizeDocument" -> summarizeDocument_catch
      [] o = "translateText" -> translateText_catch(a.langKey)
      [] o = "performSemanticSearch" -> performSemanticSearch_catch
      [] o = "compareDocuments" -> compareDocuments_catch
      [] o = "assessLegalRisk" -> assessLegalRisk_catch
      [] o = "processDocument" -> _getFallbackDocumentProcessing

\* return response || this._getFallback...(...)
OrFallback(o) ==
    CASE o = "askLegalQuestion" -> _getFallbackLegalResponse
      [] o = "summarizeDocument" -> _getFallbackSummary

\* await this._callAIService(aiService, prompt, taskType), up to the fetch:
\* an unknown service (null) throws into the operation's catch block
CallPrimary(t, o, a, cfg) ==
    IF ~_callAIService_Known(t.aiService)
    THEN Done(t, Catch(o, a))
    ELSE Invoke(t, t.aiService, cfg[SlotOf(t.aiService)], "primary")

RECURSIVE BackupLoop_RetriesPrimary(_, _, _, _, _)
\* a backup loop without the test backupAI !== aiService
BackupLoop_RetriesPrimary(t, i, o, av, cfg) ==
    IF i > Len(BACKUP_AI) THEN Done(t, OrFallback(o))
    ELSE IF Includes(av.ai, BACKUP_AI[i])
    THEN Invoke([t EXCEPT !.backupIdx = i], BACKUP_AI[i],
                cfg[SlotOf(BACKUP_AI[i])], "backup")
    ELSE BackupLoop_RetriesPrimary(t, i + 1, o, av, cfg)

RECURSIVE BackupLoop(_, _, _, _, _)
\* for (const backupAI of AI_STRATEGY.BACKUP_AI), from position i, up to the
\* next fetch; after the loop, return response || fallback with response
\* still falsy
BackupLoop(t, i, o, av, cfg) ==
    IF i > Len(BACKUP_AI) THEN Done(t, OrFallback(o))
    ELSE IF Includes(av.ai, BACKUP_AI[i]) /\ BACKUP_AI[i] # t.aiService
    THEN Invoke([t EXCEPT !.backupIdx = i], BACKUP_AI[i],
                cfg[SlotOf(BACKUP_AI[i])], "backup")
    ELSE BackupLoop(t, i + 1, o, av, cfg)

\* the primary call of askLegalQuestion / summarizeDocument has answered r
PrimaryReturns(t, r, o, a, av, cfg) ==
    LET x == _callAIService(t.aiService, r)
    IN  IF x.tag = "throw" THEN Done(t, Catch(o, a))
        ELSE IF TruthyValue(x.value)
        THEN Done(t, FromProvider(t.aiService, x.value))
        ELSE IF Len(av.ai) > 1 THEN BackupLoop(t, 1, o, av, cfg)
        ELSE Done(t, OrFallback(o))

\* a backup loop without its break
BackupReturns_NoBreak(t, r, o, av, cfg) ==
    BackupLoop(t, t.backupIdx + 1, o, av, cfg)

\* the backup call in flight has answered r: break on a truthy response,
\* else (falsy, or thrown and caught inside the loop) the next backup
BackupReturns(t, r, o, av, cfg) ==
    LET backupAI == BACKUP_AI[t.backupIdx]
        x == _callAIService(backupAI, r)
    IN  IF x.tag = "return" /\ TruthyValue(x.value)
        THEN Done(t, FromProvider(backupAI, x.value))
        ELSE BackupLoop(t, t.backupIdx + 1, o, av, cfg)

\* a start that issues the enrichment and the primary call together
askLegalQuestion_Start_Parallel(t, a, av, cfg) ==
    LET t1 == [t EXCEPT !.aiService = _selectBestAI("legal_qa", av.ai)]
    IN  IF av.nlp /\ a.context.len > 0
        THEN CallPrimary(InvokeNLP(t1, cfg), "askLegalQuestion", a, cfg)
        ELSE CallPrimary(t1, "askLegalQuestion", a, cfg)

\* askLegalQuestion, up to its first await
askLegalQuestion_Start(t, a, av, cfg) ==
    LET t1 == [t EXCEPT !.aiService = _selectBestAI("legal_qa", av.ai)]
    IN  IF av.nlp /\ a.context.len > 0
        THEN InvokeNLP(t1, cfg)
        ELSE CallPrimary(t1, "askLegalQuestion", a, cfg)

\* askLegalQuestion, from the enrichment's answer to the next await
askLegalQuestion_AfterNLP(t, r, a, cfg) ==
    LET nlp == _analyzeWithNaturalLanguage(r)
    IN  IF nlp.tag = "throw" THEN Done(t, Catch("askLegalQuestion", a))
        ELSE CallPrimary([t EXCEPT !.enrich = askLegalQuestion_Enrich(nlp)],
                         "askLegalQuestion", a, cfg)

\* _summarizeWithHuggingFace returns null without a remote call
_summarizeWithHuggingFace == "null"

\* summarizeDocument, from the selection of the AI to the next await:
\* _buildSummarizationPrompt reads text.substring; the specialised model is
\* tried first and its null leaves summary falsy
summarizeDocument_AfterEnrich(t, a, av, cfg) ==
    LET t1 == [t EXCEPT !.aiService = _selectBestAI("summarization", av.ai)]
        summary == IF Includes(av.ai, "huggingface") /\ USE_SPECIALIZED_MODELS
                   THEN _summarizeWithHuggingFace ELSE "undefined"
    IN  IF ~a.text.defined THEN Done(t1, Catch("summarizeDocument", a))
        ELSE IF TruthyValue(summary)
        THEN Done(t1, FromProvider("huggingface", summary))
        ELSE CallPrimary(t1, "summarizeDocument", a, cfg)

\* summarizeDocument, up to its first await: documentText.substring throws
\* on a missing text
summarizeDocument_Start(t, a, av, cfg) ==
    IF av.nlp
    THEN IF ~a.text.defined THEN Done(t, Catch("summarizeDocument", a))
         ELSE InvokeNLP(t, cfg)
    ELSE summarizeDocument_AfterEnrich(t, a, av, cfg)

summarizeDocument_AfterNLP(t, r, a, av, cfg) ==
    LET nlp == _analyzeWithNaturalLanguage(r)
    IN  IF nlp.tag = "throw" THEN Done(t, Catch("summarizeDocument", a))
        ELSE summarizeDocument_AfterEnrich(
                [t EXCEPT !.enrich = _formatNLPAnalysis(nlp)], a, av, cfg)

\* the fetch of translateText
translateText_Invoke(t, cfg) ==
    Invoke(t, "translate", cfg["GOOGLE_TRANSLATE"], "translate")

\* translateText, up to its first await; text.length is read only when the
\* enrichment provider is available
translateText_Start(t, a, av, cfg) ==
    IF ~av.translation THEN Done(t, Catch("translateText", a))
    ELSE IF av.nlp
    THEN IF ~a.text.defined THEN Done(t, Catch("translateText", a))
         ELSE IF a.text.len > NLP_MIN_LENGTH THEN InvokeNLP(t, cfg)
         ELSE translateText_Invoke(t, cfg)
    ELSE translateText_Invoke(t, cfg)

translateText_AfterNLP(t, r, a, cfg) ==
    LET nlp == _analyzeWithNaturalLanguage(r)
    IN  IF nlp.tag = "throw" THEN Done(t, Catch("translateText", a))
        ELSE translateText_Invoke(
                [t EXCEPT !.enrich = translateText_Enrich(nlp)], cfg)

translateText_Returns(t, r, a) ==
    LET x == translateText_Fetch(r)
    IN  IF x.tag = "throw" THEN Done(t, Catch("translateText", a))
        ELSE Done(t, FromProvider("translate", x.value))

\* the stubs of the search: both return '' without a remote call
_searchWithNaturalLanguage == "empty"
_searchLegalEntities == "empty"

\* performSemanticSearch, up to its first await on a remote call
performSemanticSearch_Start(t, a, av, cfg) ==
    LET sr == IF av.nlp
              THEN <<[source |-> "Google Natural Language",
                      results |-> _searchWithNaturalLanguage]>>
              ELSE <<>>
        t1 == [t EXCEPT !.searchResults = sr,
                        !.aiService = _selectBestAI("search", av.ai)]
    IN  IF ~a.text.defined THEN Done(t1, Catch("performSemanticSearch", a))
        ELSE CallPrimary(t1, "performSemanticSearch", a, cfg)

performSemanticSearch_Returns(t, r, a, av) ==
    LET x == _callAIService(t.aiService, r)
        sr1 == IF TruthyValue(x.value)
               THEN Append(t.searchResults,
                           [source |-> t.aiService, results |-> x.value])
               ELSE t.searchResults
        sr2 == IF Includes(av.ai, "huggingface")
                  /\ TruthyValue(_searchLegalEntities)
               THEN Append(sr1, [source |-> "Legal Entity Search",
                                 results |-> _searchLegalEntities])
               ELSE sr1
    IN  IF x.tag = "throw" THEN Done(t, Catch("performSemanticSearch", a))
        ELSE Done([t EXCEPT !.searchResults = sr2],
                  _combineSearchResults(sr2))

\* compareDocuments, up to its await: the prompt reads doc1Text.substring
compareDocuments_Start(t, a, av, cfg) ==
    LET t1 == [t EXCEPT !.aiService = _selectBestAI("comparison", av.ai)]
    IN  IF ~a.text.defined THEN Done(t1, Catch("compareDocuments", a))
        ELSE CallPrimary(t1, "compareDocuments", a, cfg)

\* return await this._callAIService(aiService, prompt, 'comparison')
compareDocuments_Returns(t, r, a) ==
    LET x == _callAIService(t.aiService, r)
    IN  IF x.tag = "throw" THEN Done(t, Catch("compareDocuments", a))
        ELSE Done(t, FromProvider(t.aiService, x.value))

\* assessLegalRisk: assessments[0], { source, sentiment, entities }
assessLegalRisk_Assessment(nlp) ==
    [entities  |-> IF Len(nlp.entities) > 0 THEN "names" ELSE "[]",
     sentiment |-> IF nlp.score # 0 THEN "score" ELSE "0",
     named     |-> Len(nlp.entities)]

\* assessLegalRisk, from the selection of the AI to its await: the prompt
\* reads documentText.substring
assessLegalRisk_AfterAnalysis(t, a, av, cfg) ==
    LET t1 == [t EXCEPT !.aiService = _selectBestAI("risk_analysis", av.ai)]
    IN  IF ~a.text.defined THEN Done(t1, Catch("assessLegalRisk", a))
        ELSE CallPrimary(t1, "assessLegalRisk", a, cfg)

\* assessLegalRisk, up to its first await
assessLegalRisk_Start(t, a, av, cfg) ==
    IF av.nlp THEN InvokeNLP(t, cfg)
    ELSE assessLegalRisk_AfterAnalysis(t, a, av, cfg)

assessLegalRisk_AfterNLP(t, r, a, av, cfg) ==
    LET nlp == _analyzeWithNaturalLanguage(r)
    IN  IF nlp.tag = "throw" THEN Done(t, Catch("assessLegalRisk", a))
        ELSE assessLegalRisk_AfterAnalysis(
                [t EXCEPT !.enrich = assessLegalRisk_Assessment(nlp)],
                a, av, cfg)

\* new Date().toISOString(): the readings of the clock
Clock == {"2024-01-01T00:00:00.000Z", "2024-01-01T00:00:00.001Z"}

\* a clock reading that ends up in the source of the object
Timestamped_AsSource(obj, now) == [obj EXCEPT !.source = now]

\* an object whose timestamp field holds the reading now
Timestamped(obj, now) == [obj EXCEPT !.lines = Append(@, now)]

\* return { nlpAnalysis, aiAssessment, timestamp: new Date().toISOString() }
assessLegalRisk_Returns(t, r, a, now) ==
    LET x == _callAIService(t.aiService, r)
    IN  IF x.tag = "throw" THEN Done(t, Catch("assessLegalRisk", a))
        ELSE Done(t, Timestamped(Object(t.aiService, x.value, RiskFields),
                                 now))

\* _processWithDocumentAI: what processDocument reads as
\* documentAIResult.text.  The catch block returns _extractTextFallback(file),
\* a string, whose .text is undefined; data.document.text || '' otherwise.
_processWithDocumentAI(r) ==
    CASE r = "network" -> "undefined"
      [] r = "http" -> "undefined"
      [] r = "nocontainer" -> "undefined"
      [] r = "noleaf" -> "empty"
      [] r = "emptytext" -> "empty"
      [] r = "text" -> "text"

\* _extractTextFallback: the text of the file; FileReader.readAsText throws
\* on a missing file and the promise rejects
_extractTextFallback(file) ==
    IF ~file.defined THEN Throw
    ELSE IF file.len > 0 THEN Return("text") ELSE Return("empty")

\* the results object of processDocument, under construction
DocumentResults(extractedText) ==
    [status |-> "none", source |-> "pipeline", value |-> extractedText,
     lines |-> <<>>, fields |-> DocumentFields]

\* _extractLegalEntities returns [] without a remote call
_extractLegalEntities == "empty"

\* processDocument, steps 2 and 3, up to the next await or the return
processDocument_AfterText(t, extractedText, av, cfg) ==
    LET t1 == [t EXCEPT !.result = DocumentResults(extractedText)]
    IN  IF av.nlp /\ TruthyValue(extractedText) THEN InvokeNLP(t1, cfg)
        ELSE Done(t1, [t1.result EXCEPT !.status = "returned"])

\* processDocument, up to its first await on a remote call: _fileToBase64
\* and _extractTextFallback both reject on a missing file
processDocument_Start(t, a, av, cfg) ==
    LET x == _extractTextFallback(a.text)
    IN  IF x.tag = "throw" THEN Done(t, Catch("processDocument", a))
        ELSE IF av.documentAI
        THEN Invoke(t, "documentai", cfg["GOOGLE_DOCUMENT_AI"], "docai")
        ELSE processDocument_AfterText(t, x.value, av, cfg)

processDocument_AfterDocumentAI(t, r, av, cfg) ==
    processDocument_AfterText(t, _processWithDocumentAI(r), av, cfg)

processDocument_AfterNLP(t, r, a) ==
    LET nlp == _analyzeWithNaturalLanguage(r)
    IN  IF nlp.tag = "throw" THEN Done(t, Catch("processDocument", a))
        ELSE Done([t EXCEPT !.enrich = assessLegalRisk_Assessment(nlp)],
                  [t.result EXCEPT !.status = "returned"])

(***************************************************************************)
(* class LegalDocumentAPIs (api-integrations.js)                           *)
(***************************************************************************)
ConfigNames == {"openai", "gemini", "huggingface"}

\* makeAPICall with no fallbackResponse: rethrows a rejected fetch and a
\* response that is not ok, else returns the parsed payload
makeAPICall(r) ==
    IF r \in {"network", "http"} THEN Throw ELSE Return(r)

\* response.choices[0].message.content
summarizeWithOpenAI(r) ==
    LET response == makeAPICall(r)
    IN  CASE response.tag = "throw" -> Throw
          [] response.value = "nocontainer" -> Throw
          [] response.value = "noleaf" -> Return("undefined")
          [] response.value = "emptytext" -> Return("empty")
          [] response.value = "text" -> Return("text")

\* response.candidates[0].content.parts[0].text
summarizeWithGemini(r) ==
    LET response == makeAPICall(r)
    IN  CASE response.tag = "throw" -> Throw
          [] response.value = "nocontainer" -> Throw
          [] response.value = "noleaf" -> Return("undefined")
          [] response.value = "emptytext" -> Return("empty")
          [] response.value = "text" -> Return("text")

\* LegalDocumentAPIs.translateText: response.responseData.translatedText
LDA_translateText_Fetch(r) ==
    LET response == makeAPICall(r)
    IN  CASE response.tag = "throw" -> Throw
          [] response.value = "nocontainer" -> Throw
          [] response.value = "noleaf" -> Return("undefined")
          [] response.value = "emptytext" -> Return("empty")
          [] response.value = "text" -> Return("text")

\* processEntityResponse: response.forEach throws unless the payload is an
\* array; an entity without word and entity_group adds nothing
processEntityResponse(r) ==
    LET response == makeAPICall(r)
    IN  CASE response.tag = "throw" -> Throw
          [] response.value = "nocontainer" -> Throw
          [] response.value = "noleaf" -> Return("empty")
          [] response.value = "emptytext" -> Return("empty")
          [] response.value = "text" -> Return("text")

\* the final fallback of each operation of the class
Mock(o, a) ==
    CASE o = "summarizeDocument" -> getMockSummary(a.summaryType)
      [] o = "askLegalQuestion" -> getMockLegalAnswer
      [] o = "translateText" -> getMockTranslation
      [] o = "extractEntities" -> getMockEntities
      [] o = "performSemanticSearch" -> getMockSearchResults

\* "Fallback to Gemini", then the mock response
LDA_TryGemini(t, o, a, c) ==
    IF Truthy(c["gemini"])
    THEN Invoke(t, "gemini", c["gemini"], "backup")
    ELSE Done(t, Mock(o, a))

\* summarizeDocument, askLegalQuestion and performSemanticSearch of the
\* class, up to the first await: "Try OpenAI first"
LDA_Start(t, o, a, c) ==
    IF Truthy(c["openai"])
    THEN Invoke(t, "openai", c["openai"], "primary")
    ELSE LDA_TryGemini(t, o, a, c)

\* the OpenAI call has answered: return await ..., or the catch block; the
\* one try block of performSemanticSearch covers both providers, so that
\* its catch leads to the mock results
LDA_OpenAIReturns(t, r, o, a, c) ==
    LET x == summarizeWithOpenAI(r)
    IN  IF x.tag = "return" THEN Done(t, FromProvider("openai", x.value))
        ELSE IF o = "performSemanticSearch" THEN Done(t, Mock(o, a))
        ELSE LDA_TryGemini(t, o, a, c)

LDA_GeminiReturns(t, r, o, a) ==
    LET x == summarizeWithGemini(r)
    IN  IF x.tag = "return" THEN Done(t, FromProvider("gemini", x.value))
        ELSE Done(t, Mock(o, a))

\* translateText of the class calls the MyMemory service, which takes no key
LDA_translateText_Start(t) == Invoke(t, "mymemory", NoKey, "translate")

LDA_translateText_Returns(t, r, a) ==
    LET x == LDA_translateText_Fetch(r)
    IN  IF x.tag = "return" THEN Done(t, FromProvider("mymemory", x.value))
        ELSE Done(t, Mock("translateText", a))

LDA_extractEntities_Start(t, a, c) ==
    IF Truthy(c["huggingface"])
    THEN Invoke(t, "huggingface", c["huggingface"], "primary")
    ELSE Done(t, Mock("extractEntities", a))

LDA_extractEntities_Returns(t, r, a) ==
    LET x == processEntityResponse(r)
    IN  IF x.tag = "return"
        THEN Done(t, Object("huggingface", x.value, EntityFields))
        ELSE Done(t, Mock("extractEntities", a))

\* a listing returned by getAvailableAPIs
Listing(names) ==
    [status |-> "returned", source |-> "config", value |-> "list",
     lines |-> names, fields |-> {}]

\* the display name pushed for each key of the class's config
DisplayName(n) ==
    CASE n = "openai" -> "OpenAI"
      [] n = "gemini" -> "Gemini"
      [] n = "huggingface" -> "Hugging Face"
      [] n = "googlecloud" -> "Google Cloud Document AI"

\* LegalDocumentAPIs.getAvailableAPIs (api-integrations.js)
getAvailableAPIs(c) ==
    LET a1 == IF Truthy(c["openai"]) THEN <<DisplayName("openai")>> ELSE <<>>
        a2 == IF Truthy(c["gemini"])
              THEN Append(a1, DisplayName("gemini")) ELSE a1
    IN  IF Truthy(c["huggingface"])
        THEN Append(a2, DisplayName("huggingface")) ELSE a2

\* results[name] = status, as a line of the results object
Entry(name, status) ==
    CASE name = "openai" /\ status = "Connected" -> "openai: Connected"
      [] name = "openai" /\ status = "Failed" -> "openai: Failed"
      [] name = "gemini" /\ status = "Connected" -> "gemini: Connected"
      [] name = "gemini" /\ status = "Failed" -> "gemini: Failed"
      [] name = "huggingface" /\ status = "Connected" ->
            "huggingface: Connected"
      [] name = "huggingface" /\ status = "Failed" -> "huggingface: Failed"

\* the results object of testAPIConnection, under construction
TestResults(res, name, status) ==
    [status |-> "none", source |-> "config", value |-> "object",
     lines |-> Append(res.lines, Entry(name, status)),
     fields |-> res.fields \cup {name}]

\* try { await this.summarizeWith...('Test prompt'); 'Connected' }
\* catch { 'Failed' }
TestStatus(x) == IF x.tag = "throw" THEN "Failed" ELSE "Connected"

\* testAPIConnection from the Gemini test on: Gemini is tested when its key
\* is set, then results is returned
testAPIConnection_Gemini(t, c) ==
    IF Truthy(c["gemini"])
    THEN Invoke(t, "gemini", c["gemini"], "test_gemini")
    ELSE Done(t, [t.result EXCEPT !.status = "returned"])

\* testAPIConnection, up to its first await
testAPIConnection_Start(t, c) ==
    LET t1 == [t EXCEPT !.result = [NoResult EXCEPT !.source = "config",
                                                     !.value = "object"]]
    IN  IF Truthy(c["openai"])
        THEN Invoke(t1, "openai", c["openai"], "test_openai")
        ELSE testAPIConnection_Gemini(t1, c)

testAPIConnection_OpenAIReturns(t, r, c) ==
    testAPIConnection_Gemini(
        [t EXCEPT !.result = TestResults(t.result, "openai",
                                         TestStatus(summarizeWithOpenAI(r)))],
        c)

testAPIConnection_GeminiReturns(t, r) ==
    LET res == TestResults(t.result, "gemini",
                           TestStatus(summarizeWithGemini(r)))
    IN  Done(t, [res EXCEPT !.status = "returned"])

(***************************************************************************)
(* class LegalDocumentAPIs of api-integrations-env.js: the keys come from  *)
(* the environment, and Google Cloud needs a project id and a key.         *)
(***************************************************************************)
EnvConfigNames == ConfigNames \cup {"googlecloud", "googlecloud_project"}

\* LegalDocumentAPIs.getAvailableAPIs (api-integrations-env.js)
Env_getAvailableAPIs(c) ==
    IF Truthy(c["googlecloud_project"]) /\ Truthy(c["googlecloud"])
    THEN Append(getAvailableAPIs(c), DisplayName("googlecloud"))
    ELSE getAvailableAPIs(c)

(***************************************************************************)
(* The state machine                                                       *)
(***************************************************************************)
EmptyConfig == [s \in Slots |-> NoKey]
EmptyLDAConfig == [n \in ConfigNames |-> NoKey]

\* The page has loaded its scripts: loadAPIKeys has run once and API_CONFIG
\* holds the keys stored in the browser, the class has read its stored
\* keys, and no task has been started.
Init ==
    /\ program \in {"enhanced", "basic", "env"}
    /\ CASE program = "enhanced" ->
                /\ API_CONFIG \in [Slots -> KeyValues]
                /\ config = EmptyLDAConfig
         [] program = "basic" ->
                /\ API_CONFIG = EmptyConfig
                /\ config \in [ConfigNames -> KeyValues]
         [] program = "env" ->
                /\ API_CONFIG = EmptyConfig
                /\ config \in [EnvConfigNames -> KeyValues]
    /\ localStorage = API_CONFIG
    /\ validated = (program = "enhanced" /\ validateAPIKeys(API_CONFIG))
    /\ availableServices = NoServices
    /\ domLoaded = FALSE
    /\ op = "none"
    /\ args = NoArgs
    /\ pc = NewTask.pc
    /\ aiService = NewTask.aiService
    /\ backupIdx = NewTask.backupIdx
    /\ enrich = NewTask.enrich
    /\ searchResults = NewTask.searchResults
    /\ calls = NewTask.calls
    /\ nlpCalls = NewTask.nlpCalls
    /\ result = NewTask.result
    /\ twin = NewTask

\* ---- configuration operations of the enhanced variant ----

\* the DOMContentLoaded handler: await legalAPIs.initializeServices()
DOMContentLoaded ==
    /\ program = "enhanced"
    /\ ~domLoaded
    /\ availableServices' = initializeServices_Result(API_CONFIG)
    /\ domLoaded' = TRUE
    /\ UNCHANGED <<program, API_CONFIG, localStorage, config,
                   validated>>
    /\ UNCHANGED taskVars

\* A task that has returned hands its result to the awaiting caller in the
\* same microtask: no other callback runs in between.
NotReturning == pc # "done"

\* a later call of legalAPIs.initializeServices()
initializeServices ==
    /\ program = "enhanced"
    /\ domLoaded
    /\ NotReturning
    /\ availableServices' = initializeServices_Result(API_CONFIG)
    /\ UNCHANGED <<program, API_CONFIG, localStorage, domLoaded, config,
                   validated>>
    /\ UNCHANGED taskVars

\* the keys object with the given entries
Keys(slots) == [s \in Slots |-> IF s \in slots THEN "k" ELSE NoKey]

\* the arguments of setAPIKeys enumerated: no key, one key, and the two
\* keys of the setup guide's example
KeyArguments ==
    {Keys({})} \cup {Keys({s}) : s \in Slots}
               \cup {Keys({"OPENAI", "GOOGLE_TRANSLATE"})}

\* setAPIKeys(keys), in the browser
setAPIKeys_With(keys) ==
    /\ program = "enhanced"
    /\ NotReturning
    /\ API_CONFIG' = setAPIKeys_Config(API_CONFIG, keys)
    /\ localStorage' = setAPIKeys_Store(localStorage, keys)
    /\ validated' = validateAPIKeys(API_CONFIG')
    /\ UNCHANGED <<program, availableServices, domLoaded, config>>
    /\ UNCHANGED taskVars

setAPIKeys == \E keys \in KeyArguments : setAPIKeys_With(keys)

\* loadAPIKeys(), in the browser
loadAPIKeys ==
    /\ program = "enhanced"
    /\ NotReturning
    /\ API_CONFIG' = loadAPIKeys_Config(API_CONFIG, localStorage)
    /\ validated' = validateAPIKeys(API_CONFIG')
    /\ UNCHANGED <<program, localStorage, availableServices, domLoaded,
                   config>>
    /\ UNCHANGED taskVars

\* ---- task operations of the enhanced variant ----

\* a caller may start a task once the page is ready and no task is running
CanStart(variant) ==
    /\ program = variant
    /\ variant = "enhanced" => domLoaded
    /\ pc = "idle"

askLegalQuestion ==
    /\ CanStart("enhanced")
    /\ \E c \in Contexts :
        /\ op' = "askLegalQuestion"
        /\ args' = [NoArgs EXCEPT !.context = c]
        /\ Runs(LAMBDA run : askLegalQuestion_Start(NewTask, args', availableServices,
                                          API_CONFIG))
    /\ UNCHANGED cfgVars

\* summarizeDocument, had it refreshed the registry before selecting
summarizeDocument_Reinitializes ==
    /\ CanStart("enhanced")
    /\ \E text \in SummaryTexts, type \in SummaryTypes :
        /\ op' = "summarizeDocument"
        /\ args' = [NoArgs EXCEPT !.text = text, !.summaryType = type]
        /\ Runs(LAMBDA run : summarizeDocument_Start(NewTask, args',
                                 initializeServices_Result(API_CONFIG),
                                 API_CONFIG))
    /\ availableServices' = initializeServices_Result(API_CONFIG)
    /\ UNCHANGED <<program, API_CONFIG, localStorage, domLoaded, config,
                   validated>>

summarizeDocument ==
    /\ CanStart("enhanced")
    /\ \E text \in SummaryTexts, type \in SummaryTypes :
        /\ op' = "summarizeDocument"
        /\ args' = [NoArgs EXCEPT !.text = text, !.summaryType = type]
        /\ Runs(LAMBDA run : summarizeDocument_Start(NewTask, args', availableServices,
                                           API_CONFIG))
    /\ UNCHANGED cfgVars

translateText ==
    /\ CanStart("enhanced")
    /\ \E text \in TranslateTexts, langKey \in LangKeys :
        /\ op' = "translateText"
        /\ args' = [NoArgs EXCEPT !.text = text, !.langKey = langKey]
        /\ Runs(LAMBDA run : translateText_Start(NewTask, args', availableServices,
                                       API_CONFIG))
    /\ UNCHANGED cfgVars

performSemanticSearch ==
    /\ CanStart("enhanced")
    /\ \E text \in DocumentTexts :
        /\ op' = "performSemanticSearch"
        /\ args' = [NoArgs EXCEPT !.text = text]
        /\ Runs(LAMBDA run : performSemanticSearch_Start(NewTask, args',
                                               availableServices, API_CONFIG))
    /\ UNCHANGED cfgVars

compareDocuments ==
    /\ CanStart("enhanced")
    /\ \E text \in DocumentTexts :
        /\ op' = "compareDocuments"
        /\ args' = [NoArgs EXCEPT !.text = text]
        /\ Runs(LAMBDA run : compareDocuments_Start(NewTask, args', availableServices,
                                          API_CONFIG))
    /\ UNCHANGED cfgVars

assessLegalRisk ==
    /\ CanStart("enhanced")
    /\ \E text \in DocumentTexts :
        /\ op' = "assessLegalRisk"
        /\ args' = [NoArgs EXCEPT !.text = text]
        /\ Runs(LAMBDA run : assessLegalRisk_Start(NewTask, args', availableServices,
                                         API_CONFIG))
    /\ UNCHANGED cfgVars

\* processDocument(file): the file is missing or has a text
processDocument ==
    /\ CanStart("enhanced")
    /\ \E file \in DocumentTexts :
        /\ op' = "processDocument"
        /\ args' = [NoArgs EXCEPT !.text = file]
        /\ Runs(LAMBDA run : processDocument_Start(NewTask, args', availableServices,
                                         API_CONFIG))
    /\ UNCHANGED cfgVars

\* the call to Document AI is answered
DocumentAIResponds ==
    /\ program = "enhanced"
    /\ pc = "docai"
    /\ \E r \in Responses :
        Runs(LAMBDA run : processDocument_AfterDocumentAI(Responded(run, r), r,
                                                availableServices, API_CONFIG))
    /\ UNCHANGED <<op, args>>
    /\ UNCHANGED cfgVars

\* the enrichment call in flight is answered
NaturalLanguageResponds ==
    /\ program = "enhanced"
    /\ pc = "nlp"
    /\ \E r \in NLPResponses :
        Runs(LAMBDA run :
          LET t == NLPResponded(run, r)
          IN  CASE op = "askLegalQuestion" ->
                      askLegalQuestion_AfterNLP(t, r, args, API_CONFIG)
                [] op = "summarizeDocument" ->
                      summarizeDocument_AfterNLP(t, r, args,
                                                 availableServices, API_CONFIG)
                [] op = "translateText" ->
                      translateText_AfterNLP(t, r, args, API_CONFIG)
                [] op = "assessLegalRisk" ->
                      assessLegalRisk_AfterNLP(t, r, args, availableServices,
                                               API_CONFIG)
                [] op = "processDocument" ->
                      processDocument_AfterNLP(t, r, args))
    /\ UNCHANGED <<op, args>>
    /\ UNCHANGED cfgVars

\* the call to the selected AI service is answered
PrimaryResponds ==
    /\ program = "enhanced"
    /\ pc = "primary"
    /\ op # "assessLegalRisk"
    /\ \E r \in Responses :
        Runs(LAMBDA run :
          LET t == Responded(run, r)
          IN  CASE op = "performSemanticSearch" ->
                      performSemanticSearch_Returns(t, r, args,
                                                    availableServices)
                [] op = "compareDocuments" ->
                      compareDocuments_Returns(t, r, args)
                [] OTHER ->
                      PrimaryReturns(t, r, op, args, availableServices,
                                     API_CONFIG))
    /\ UNCHANGED <<op, args>>
    /\ UNCHANGED cfgVars

\* the call of assessLegalRisk to the selected AI service is answered; each
\* run reads the clock when it builds its result
RiskAssessmentResponds ==
    /\ program = "enhanced"
    /\ pc = "primary"
    /\ op = "assessLegalRisk"
    /\ \E r \in Responses, now \in Clock, again \in Clock :
        /\ Becomes(assessLegalRisk_Returns(Responded(Task, r), r, args, now))
        /\ twin' = assessLegalRisk_Returns(Responded(twin, r), r, args,
                                           again)
    /\ UNCHANGED <<op, args>>
    /\ UNCHANGED cfgVars

\* the call to a backup AI service is answered
BackupResponds ==
    /\ program = "enhanced"
    /\ pc = "backup"
    /\ \E r \in Responses :
        Runs(LAMBDA run : BackupReturns(Responded(run, r), r, op, availableServices,
                              API_CONFIG))
    /\ UNCHANGED <<op, args>>
    /\ UNCHANGED cfgVars

\* the call to Google Translate is answered
TranslateResponds ==
    /\ program = "enhanced"
    /\ pc = "translate"
    /\ \E r \in Responses :
        Runs(LAMBDA run : translateText_Returns(Responded(run, r), r, args))
    /\ UNCHANGED <<op, args>>
    /\ UNCHANGED cfgVars

\* the caller has taken the result of the finished task
TaskReturned ==
    /\ pc = "done"
    /\ op' = "none"
    /\ args' = NoArgs
    /\ Runs(LAMBDA run : NewTask)
    /\ UNCHANGED cfgVars

\* ---- task operations of class LegalDocumentAPIs ----

LDA_summarizeDocument ==
    /\ CanStart("basic")
    /\ \E text \in DocumentTexts, type \in SummaryTypes :
        /\ op' = "summarizeDocument"
        /\ args' = [NoArgs EXCEPT !.text = text, !.summaryType = type]
        /\ Runs(LAMBDA run : LDA_Start(NewTask, op', args', config))
    /\ UNCHANGED cfgVars

LDA_askLegalQuestion ==
    /\ CanStart("basic")
    /\ \E c \in Contexts :
        /\ op' = "askLegalQuestion"
        /\ args' = [NoArgs EXCEPT !.context = c]
        /\ Runs(LAMBDA run : LDA_Start(NewTask, op', args', config))
    /\ UNCHANGED cfgVars

LDA_performSemanticSearch ==
    /\ CanStart("basic")
    /\ \E text \in DocumentTexts :
        /\ op' = "performSemanticSearch"
        /\ args' = [NoArgs EXCEPT !.text = text]
        /\ Runs(LAMBDA run : LDA_Start(NewTask, op', args', config))
    /\ UNCHANGED cfgVars

LDA_translateText ==
    /\ CanStart("basic")
    /\ \E text \in TranslateTexts, langKey \in LangKeys :
        /\ op' = "translateText"
        /\ args' = [NoArgs EXCEPT !.text = text, !.langKey = langKey]
        /\ Runs(LAMBDA run : LDA_translateText_Start(NewTask))
    /\ UNCHANGED cfgVars

LDA_extractEntities ==
    /\ CanStart("basic")
    /\ \E text \in DocumentTexts :
        /\ op' = "extractEntities"
        /\ args' = [NoArgs EXCEPT !.text = text]
        /\ Runs(LAMBDA run : LDA_extractEntities_Start(NewTask, args', config))
    /\ UNCHANGED cfgVars

LDA_OpenAIResponds ==
    /\ program = "basic"
    /\ pc = "primary"
    /\ op # "extractEntities"
    /\ \E r \in Responses :
        Runs(LAMBDA run : LDA_OpenAIReturns(Responded(run, r), r, op, args, config))
    /\ UNCHANGED <<op, args>>
    /\ UNCHANGED cfgVars

LDA_GeminiResponds ==
    /\ program = "basic"
    /\ pc = "backup"
    /\ \E r \in Responses :
        Runs(LAMBDA run : LDA_GeminiReturns(Responded(run, r), r, op, args))
    /\ UNCHANGED <<op, args>>
    /\ UNCHANGED cfgVars

LDA_MyMemoryResponds ==
    /\ program = "basic"
    /\ pc = "translate"
    /\ \E r \in Responses :
        Runs(LAMBDA run : LDA_translateText_Returns(Responded(run, r), r, args))
    /\ UNCHANGED <<op, args>>
    /\ UNCHANGED cfgVars

LDA_HuggingFaceResponds ==
    /\ program = "basic"
    /\ pc = "primary"
    /\ op = "extractEntities"
    /\ \E r \in Responses :
        Runs(LAMBDA run : LDA_extractEntities_Returns(Responded(run, r), r, args))
    /\ UNCHANGED <<op, args>>
    /\ UNCHANGED cfgVars

\* getAvailableAPIs() of either class: synchronous
LDA_getAvailableAPIs ==
    /\ CanStart("basic")
    /\ op' = "getAvailableAPIs"
    /\ args' = NoArgs
    /\ Runs(LAMBDA run : Done(NewTask, Listing(getAvailableAPIs(config))))
    /\ UNCHANGED cfgVars

Env_LDA_getAvailableAPIs ==
    /\ CanStart("env")
    /\ op' = "getAvailableAPIs"
    /\ args' = NoArgs
    /\ Runs(LAMBDA run : Done(NewTask, Listing(Env_getAvailableAPIs(config))))
    /\ UNCHANGED cfgVars

LDA_testAPIConnection ==
    /\ CanStart("basic")
    /\ op' = "testAPIConnection"
    /\ args' = NoArgs
    /\ Runs(LAMBDA run : testAPIConnection_Start(NewTask, config))
    /\ UNCHANGED cfgVars

LDA_TestOpenAIResponds ==
    /\ program = "basic"
    /\ pc = "test_openai"
    /\ \E r \in Responses :
        Runs(LAMBDA run : testAPIConnection_OpenAIReturns(Responded(run, r), r, config))
    /\ UNCHANGED <<op, args>>
    /\ UNCHANGED cfgVars

LDA_TestGeminiResponds ==
    /\ program = "basic"
    /\ pc = "test_gemini"
    /\ \E r \in Responses :
        Runs(LAMBDA run : testAPIConnection_GeminiReturns(Responded(run, r), r))
    /\ UNCHANGED <<op, args>>
    /\ UNCHANGED cfgVars

Next ==
    \/ DOMContentLoaded
    \/ initializeServices
    \/ setAPIKeys
    \/ loadAPIKeys
    \/ askLegalQuestion
    \/ summarizeDocument
    \/ translateText
    \/ performSemanticSearch
    \/ NaturalLanguageResponds
    \/ PrimaryResponds
    \/ RiskAssessmentResponds
    \/ BackupResponds
    \/ TranslateResponds
    \/ TaskReturned
    \/ LDA_summarizeDocument
    \/ LDA_askLegalQuestion
    \/ LDA_performSemanticSearch
    \/ LDA_translateText
    \/ LDA_extractEntities
    \/ LDA_OpenAIResponds
    \/ LDA_GeminiResponds
    \/ LDA_MyMemoryResponds
    \/ LDA_HuggingFaceResponds
    \/ LDA_getAvailableAPIs
    \/ LDA_testAPIConnection
    \/ LDA_TestOpenAIResponds
    \/ LDA_TestGeminiResponds
    \/ compareDocuments
    \/ assessLegalRisk
    \/ processDocument
    \/ DocumentAIResponds
    \/ Env_LDA_getAvailableAPIs

Spec == Init /\ [][Next]_vars

\* the configuration operations a page may run at any moment
Reconfiguration == initializeServices \/ setAPIKeys \/ loadAPIKeys

\* The program used with one configuration snapshot per task: keys are set
\* and the registry is recomputed only while no task is in flight.
SnapshotNext ==
    \/ (pc = "idle" /\ Reconfiguration)
    \/ DOMContentLoaded
    \/ askLegalQuestion
    \/ summarizeDocument
    \/ translateText
    \/ performSemanticSearch
    \/ compareDocuments
    \/ assessLegalRisk
    \/ processDocument
    \/ DocumentAIResponds
    \/ NaturalLanguageResponds
    \/ PrimaryResponds
    \/ RiskAssessmentResponds
    \/ BackupResponds
    \/ TranslateResponds
    \/ TaskReturned
    \/ LDA_summarizeDocument
    \/ LDA_askLegalQuestion
    \/ LDA_performSemanticSearch
    \/ LDA_translateText
    \/ LDA_extractEntities
    \/ LDA_OpenAIResponds
    \/ LDA_GeminiResponds
    \/ LDA_MyMemoryResponds
    \/ LDA_HuggingFaceResponds
    \/ LDA_getAvailableAPIs
    \/ LDA_testAPIConnection
    \/ LDA_TestOpenAIResponds
    \/ LDA_TestGeminiResponds
    \/ Env_LDA_getAvailableAPIs

SnapshotSpec == Init /\ [][SnapshotNext]_vars

(***************************************************************************)
(* The key operations alone, with keys that replace the ones in place and  *)
(* with keys written into setup-api-keys.js that the browser has not       *)
(* stored.                                                                 *)
(***************************************************************************)
\* a second key for two of the slots
ReplacementKeys ==
    {[Keys({}) EXCEPT ![s] = "k2"] : s \in {"OPENAI", "GOOGLE_TRANSLATE"}}
    \cup {[Keys({"GEMINI"}) EXCEPT !["OPENAI"] = "k2"]}

\* loadAPIKeys has run at load: a slot holds its stored item, or the key
\* written into the file where nothing is stored
KeysInit ==
    /\ program = "enhanced"
    /\ API_CONFIG \in [Slots -> KeyValues]
    /\ localStorage \in [Slots -> KeyValues]
    /\ \A s \in Slots : localStorage[s] \in {NoKey, API_CONFIG[s]}
    /\ config = EmptyLDAConfig
    /\ validated = validateAPIKeys(API_CONFIG)
    /\ availableServices = NoServices
    /\ domLoaded = FALSE
    /\ op = "none"
    /\ args = NoArgs
    /\ pc = NewTask.pc
    /\ aiService = NewTask.aiService
    /\ backupIdx = NewTask.backupIdx
    /\ enrich = NewTask.enrich
    /\ searchResults = NewTask.searchResults
    /\ calls = NewTask.calls
    /\ nlpCalls = NewTask.nlpCalls
    /\ result = NewTask.result
    /\ twin = NewTask

KeysNext ==
    \/ \E keys \in KeyArguments \cup ReplacementKeys : setAPIKeys_With(keys)
    \/ loadAPIKeys

KeysSpec == KeysInit /\ [][KeysNext]_vars

\* What the scheduling guarantees: the browser fires DOMContentLoaded, and
\* the caller awaiting a settled promise resumes.  A remote service may
\* never answer, and no fetch of the code carries a timeout or an abort
\* signal, so no response is guaranteed.
FairSpec ==
    /\ Spec
    /\ WF_vars(DOMContentLoaded)
    /\ WF_vars(TaskReturned)

(***************************************************************************)
(* Vocabulary of the properties                                            *)
(***************************************************************************)
Enhanced == program = "enhanced"
Basic == program = "basic"
Finished == pc = "done"

\* the generation providers with a non-empty credential
Credentialed ==
    IF Enhanced
    THEN {ai \in AIProviders : Truthy(API_CONFIG[SlotOf(ai)])}
    ELSE {n \in {"openai", "gemini"} : Truthy(config[n])}

\* the generation providers the variant treats as available
AvailableAI ==
    IF Enhanced THEN Range(availableServices.ai) ELSE Credentialed

\* the caller received the degradation placeholder
IsPlaceholder == result.status = "returned" /\ result.source = "fallback"

GenerationOps == {"askLegalQuestion", "summarizeDocument",
                  "performSemanticSearch"}

TaskTypeOf(o) ==
    CASE o = "askLegalQuestion" -> "legal_qa"
      [] o = "summarizeDocument" -> "summarization"
      [] o = "performSemanticSearch" -> "search"
      [] o = "compareDocuments" -> "comparison"
      [] o = "assessLegalRisk" -> "risk_analysis"

\* the operations that select their provider with _selectBestAI
RouterOps == GenerationOps \cup {"compareDocuments", "assessLegalRisk"}

\* the order in which a task prefers the generation providers: its row of
\* the preference table, then the rest in registry order; the class tries
\* OpenAI, then Gemini
PreferenceOrder(o) ==
    IF Enhanced
    THEN preferences(TaskTypeOf(o)) \o
         SelectSeq(AIRegistryOrder,
                   LAMBDA x : x \notin Range(preferences(TaskTypeOf(o))))
    ELSE <<"openai", "gemini">>

\* the available providers of a task, most preferred first
PreferredAvailable(o, available) ==
    SelectSeq(PreferenceOrder(o), LAMBDA x : x \in available)

\* the calls of the task that failed: transport error or malformed payload
FailedCall(i) == calls[i].response \in {"transport", "malformed"}

\* the result is the text generated by provider p
ResultFrom(p) ==
    /\ result.status = "returned"
    /\ result.value = "text"
    /\ IF Enhanced /\ op = "performSemanticSearch"
       THEN /\ result.source = "combined"
            /\ \E i \in 1..Len(searchResults) :
                   searchResults[i] = [source |-> p, results |-> "text"]
       ELSE result.source = p

\* lines by which a text says what it is
NonAuthoritativeNotices ==
    {"This is a demonstration response. Configure your AI services for full functionality.",
     "This is a demonstration summary. Configure your AI services for intelligent analysis.",
     "Sample translation shown - configure APIs for full functionality.",
     "Sample Legal Database Results",
     "This is a mock response. For accurate legal advice, please consult with a qualified legal professional familiar with Indian law.",
     "[This is a mock translation. Please use a proper translation service for accurate results.]",
     "This is a mock search result. Actual implementation would provide more detailed analysis."}

NoTranslationNotices ==
    {"[This is a mock translation. Please use a proper translation service for accurate results.]"}

ConfigurationRequiredNotices ==
    {"Configure Google Translate API for professional legal document translation",
     "Sample translation shown - configure APIs for full functionality.",
     "<in the target language> This is an advanced translation system. Configure your API keys for all AI features."}

Says(notices) == \E i \in 1..Len(result.lines) : result.lines[i] \in notices

(***************************************************************************)
(* Properties                                                              *)
(***************************************************************************)

C2_SecondProviderAnswers ==
    (/\ Finished /\ Enhanced
     /\ op \in {"askLegalQuestion", "summarizeDocument"}
     /\ Len(calls) >= 1
     /\ calls[1].response = "transport"
     /\ Len(PreferredAvailable(op, AvailableAI)) >= 2
     /\ calls[1].service = PreferredAvailable(op, AvailableAI)[1])
    => /\ Len(calls) >= 2
       /\ calls[2].service = PreferredAvailable(op, AvailableAI)[2]
       /\ calls[2].response = "ok"
            => (Len(calls) = 2 /\ ResultFrom(calls[2].service))

\* C3, in every state: when the first provider a generation task calls
\* succeeds, the task returns that provider's text, not a placeholder; the
\* orchestrator calls first the provider it selected.
C3_FirstSuccessReturned ==
    /\ (/\ Finished
        /\ op \in GenerationOps
        /\ Len(calls) >= 1
        /\ calls[1].response = "ok")
       => (ResultFrom(calls[1].service) /\ ~IsPlaceholder)
    /\ (Enhanced /\ op \in GenerationOps /\ Len(calls) >= 1)
       => calls[1].service = aiService

\* C3, in every step: the provider a generation task selects (the
\* orchestrator) or calls first (the class) is the most preferred of the
\* providers available at that moment.
C3_FirstCallIsMostPreferred ==
    /\ (/\ Enhanced
        /\ op' \in GenerationOps
        /\ aiService' # aiService
        /\ aiService' # Null)
       => aiService' = PreferredAvailable(op', AvailableAI)[1]
    /\ (/\ Basic
        /\ op' \in GenerationOps
        /\ Len(calls) = 0
        /\ Len(calls') = 1)
       => calls'[1].service = PreferredAvailable(op', AvailableAI)[1]

\* C3: whenever the highest-preference available generation provider of a
\* task succeeds, the result is that provider's output and not degraded,
\* whatever other providers are configured.
C3_HighestPreferenceWins ==
    [](C3_FirstSuccessReturned) /\ [][C3_FirstCallIsMostPreferred]_vars

\* only the second-preference provider of summarization holds a key
C3_Witness ==
    /\ Finished /\ Enhanced
    /\ op = "summarizeDocument"
    /\ Credentialed = {"gemini"}
    /\ Len(calls) = 1
    /\ calls[1].response = "ok"
    /\ ResultFrom("gemini")

\* C4: when every provider call of a task failed (transport error, non-2xx
\* response or malformed payload), the task resolves with the degradation
\* placeholder and raises nothing.
C4_AllFailedDegrades ==
    (/\ Finished
     /\ op \in GenerationOps \cup {"translateText"}
     /\ Len(calls) >= 1
     /\ \A i \in 1..Len(calls) : FailedCall(i))
    => IsPlaceholder

\* C5: a success-status payload that lacks an expected field is handled as
\* a failure of that provider: the task goes on to the next available
\* provider, or ends in the degradation placeholder once every available
\* provider has been tried.
C5_MalformedIsFailure ==
    (/\ Finished
     /\ op \in {"askLegalQuestion", "summarizeDocument"}
     /\ Len(calls) >= 1
     /\ calls[Len(calls)].response = "malformed")
    => /\ IsPlaceholder
       /\ AvailableAI \subseteq {calls[i].service : i \in 1..Len(calls)}

\* C6: when the enrichment call of askLegalQuestion errors, the generation
\* providers are still attempted, the selected one first, and the first
\* success is what the task returns.
C6_EnrichmentFailureNotBlocking ==
    (/\ Finished /\ Enhanced
     /\ op = "askLegalQuestion"
     /\ Len(nlpCalls) >= 1
     /\ nlpCalls[1].response = "transport")
    => /\ aiService # Null =>
            (Len(calls) >= 1 /\ calls[1].service = aiService)
       /\ \A i \in 1..Len(calls) :
            calls[i].response = "ok" =>
                (i = Len(calls) /\ ResultFrom(calls[i].service))

C6_Witness ==
    /\ Finished /\ Enhanced
    /\ op = "askLegalQuestion"
    /\ Len(nlpCalls) = 1
    /\ nlpCalls[1].response = "transport"
    /\ Len(calls) >= 1
    /\ ResultFrom(calls[Len(calls)].service)

\* C7: translateText without a translation credential returns a placeholder
\* that says that no translation occurred and that configuration is
\* required.
C7_UntranslatedIsLabelled ==
    (/\ Finished
     /\ op = "translateText"
     /\ Enhanced => ~Truthy(API_CONFIG["GOOGLE_TRANSLATE"]))
    => /\ IsPlaceholder
       /\ Says(NoTranslationNotices)
       /\ Says(ConfigurationRequiredNotices)

\* C8: a result is the placeholder exactly when no provider call of the
\* task succeeded, and every placeholder carries a notice that it is not
\* a genuine result.
C8_DegradedIffNoSuccess ==
    (Finished /\ result.status = "returned")
    => /\ IsPlaceholder <=> ~(\E i \in 1..Len(calls) : calls[i].response = "ok")
       /\ IsPlaceholder => Says(NonAuthoritativeNotices)

C10_RegistryFollowsKeys ==
    (Enhanced /\ domLoaded /\ pc = "idle")
    => availableServices = initializeServices_Result(API_CONFIG)


\* the registry that initializeServices computes from the keys of the
\* providers in R
RegistryOf(R) == SelectSeq(AIRegistryOrder, LAMBDA x : x \in R)

\* C11: whatever configuration updates run while a task is suspended, the
\* provider the task selected and every provider it called are those of
\* one configuration snapshot: some single registry explains the selection
\* and contains every provider called, each called with that snapshot's
\* non-empty key.
C11_OneSnapshot ==
    (/\ Enhanced
     /\ op \in {"askLegalQuestion", "summarizeDocument"}
     /\ Len(calls) >= 1)
    => \E R \in SUBSET AIProviders :
          /\ aiService = _selectBestAI(TaskTypeOf(op), RegistryOf(R))
          /\ \A i \in 1..Len(calls) :
                calls[i].service \in R /\ Truthy(calls[i].key)


\* the names a listing contains
Listed == Range(result.lines)

\* the keys of the class's config that name a provider
ProviderKeys ==
    IF program = "env" THEN ConfigNames \cup {"googlecloud"} ELSE ConfigNames

\* C12 as stated, for getAvailableAPIs: the listing names exactly the
\* providers whose key is non-empty.
C12_ListsKeyedProviders ==
    (Finished /\ op = "getAvailableAPIs")
    => Listed = {DisplayName(n) : n \in {k \in ProviderKeys : Truthy(config[k])}}

\* C12, in every step: a call of initializeServices leaves a registry that
\* lists a generation provider exactly when its key is non-empty, each once
\* and in the order openai, gemini, anthropic, huggingface, and flags the
\* other services exactly when their key is non-empty, whatever the
\* registry was before the call.
C12_InitializeServicesExact ==
    (DOMContentLoaded \/ initializeServices)
    => /\ availableServices'.ai =
            RegistryOf({ai \in AIProviders : Truthy(API_CONFIG'[SlotOf(ai)])})
       /\ availableServices'.nlp = Truthy(API_CONFIG'["GOOGLE_NATURAL_LANGUAGE"])
       /\ availableServices'.documentAI = Truthy(API_CONFIG'["GOOGLE_DOCUMENT_AI"])
       /\ availableServices'.translation = Truthy(API_CONFIG'["GOOGLE_TRANSLATE"])

\* C12, in every state: getAvailableAPIs lists OpenAI, Gemini and Hugging
\* Face exactly when their key is non-empty, each once, and Google Cloud
\* Document AI exactly when both its key and its project id are non-empty.
C12_ListingExact ==
    (Finished /\ op = "getAvailableAPIs")
    => /\ \A n \in ConfigNames : DisplayName(n) \in Listed <=> Truthy(config[n])
       /\ DisplayName("googlecloud") \in Listed <=>
            (/\ program = "env"
             /\ Truthy(config["googlecloud"])
             /\ Truthy(config["googlecloud_project"]))
       /\ Cardinality(Listed) = Len(result.lines)

\* C12 as amended: initializeServices, however often it is called, lists
\* exactly the providers with a non-empty key, once each and in registry
\* order; getAvailableAPIs lists exactly the providers with a non-empty
\* key, where Google Cloud Document AI also needs its project id.
C12_AvailabilityFollowsKeys ==
    [](C12_ListingExact) /\ [][C12_InitializeServicesExact]_vars

C12_Witness ==
    /\ Finished
    /\ program = "env"
    /\ op = "getAvailableAPIs"
    /\ Truthy(config["googlecloud"])
    /\ ~Truthy(config["googlecloud_project"])
    /\ Truthy(config["gemini"])
    /\ Listed = {"Gemini"}


\* the priority of the providers for each task, as documented
DocumentedPriority(taskType) ==
    CASE taskType = "legal_qa" ->
            <<"gemini", "openai", "anthropic", "huggingface">>
      [] taskType = "summarization" ->
            <<"openai", "gemini", "anthropic", "huggingface">>
      [] taskType \in {"search", "risk_analysis"} ->
            <<"gemini", "openai", "anthropic">>
      [] taskType = "comparison" -> <<"openai", "gemini", "anthropic">>

\* the documented providers of a task that the registry lists, in order
DocumentedAvailable(taskType) ==
    SelectSeq(DocumentedPriority(taskType), LAMBDA x : x \in AvailableAI)

\* a step in which the task in flight selects its AI service
SelectsService ==
    /\ Enhanced
    /\ op' \in RouterOps
    /\ aiService' # aiService
    /\ aiService' # Null

\* C13, in every state: for every task type with a documented provider in
\* the registry, _selectBestAI returns the first such provider.
C13_RouterFollowsTable ==
    Enhanced =>
        \A taskType \in KnownTaskTypes :
            DocumentedAvailable(taskType) # <<>> =>
                _selectBestAI(taskType, availableServices.ai) =
                    DocumentedAvailable(taskType)[1]

\* C13, in every step: the service a task selects is the first available
\* provider of the documented priority of its task type.
C13_TaskFollowsTable ==
    (SelectsService /\ DocumentedAvailable(TaskTypeOf(op')) # <<>>)
    => aiService' = DocumentedAvailable(TaskTypeOf(op'))[1]

\* C13: for each task type _selectBestAI returns the first available
\* provider of that task's fixed preference list: Legal Q&A Gemini, OpenAI,
\* Anthropic, Hugging Face; Summarization OpenAI, Gemini, Anthropic, Hugging
\* Face; Search and Risk Analysis Gemini, OpenAI, Anthropic; Comparison
\* OpenAI, Gemini, Anthropic.
C13_FirstAvailablePreferred ==
    [](C13_RouterFollowsTable) /\ [][C13_TaskFollowsTable]_vars

\* a question is routed to Gemini although OpenAI comes first in the
\* registry
C13_Witness ==
    /\ Enhanced
    /\ op = "askLegalQuestion"
    /\ pc = "primary"
    /\ availableServices.ai = <<"openai", "gemini", "anthropic">>
    /\ aiService = "gemini"
    /\ calls[1].service = "gemini"

\* C14, in every state: when the registry lists none of a task's preferred
\* providers, _selectBestAI returns the first provider of the registry, and
\* null when the registry is empty.
C14_RouterFallsThrough ==
    Enhanced =>
        \A taskType \in KnownTaskTypes :
            DocumentedAvailable(taskType) = <<>> =>
                _selectBestAI(taskType, availableServices.ai) =
                    (IF availableServices.ai # <<>>
                     THEN availableServices.ai[1] ELSE Null)

\* C14, in every state: a task that found no provider at all returns the
\* placeholder and raises nothing.
C14_NoProviderDegrades ==
    (/\ Finished /\ Enhanced
     /\ op \in RouterOps
     /\ aiService = Null)
    => (IsPlaceholder /\ calls = <<>>)

\* C14: with none of the preferred providers available the router selects
\* the first remaining provider in registry order (Hugging Face for
\* search); with no generation provider at all it signals that none is
\* available and the task ends in the placeholder, not in an error.
C14_FallThroughThenDegrade ==
    C14_RouterFallsThrough /\ C14_NoProviderDegrades

\* a call of the task to provider p that returned a text
Succeeded(p) ==
    \E i \in 1..Len(calls) :
        calls[i].service = p /\ calls[i].response = "ok"

\* C19: testAPIConnection never rejects, and its results hold an entry for
\* exactly the providers with a non-empty key (OpenAI, Gemini, Hugging
\* Face): 'Connected' when the test call to the provider succeeded,
\* 'Failed' otherwise.
C19_EveryKeyTested ==
    (Finished /\ op = "testAPIConnection")
    => /\ result.status = "returned"
       /\ result.fields = {n \in ConfigNames : Truthy(config[n])}
       /\ \A n \in result.fields :
            Says({Entry(n, IF Succeeded(n) THEN "Connected" ELSE "Failed")})


\* the fields of the value an operation returns when a provider answered
SuccessFields(o) ==
    CASE o = "extractEntities" -> EntityFields
      [] o = "processDocument" -> DocumentFields
      [] o = "assessLegalRisk" -> RiskFields
      [] OTHER -> {}

\* C16: whatever produced it, a provider or the failure path, the result of
\* summarizeDocument, askLegalQuestion, translateText, performSemanticSearch,
\* extractEntities, processDocument and assessLegalRisk has the fields of
\* that operation's success result.
C16_SameShape ==
    (/\ Finished
     /\ result.status = "returned"
     /\ op \in GenerationOps \cup {"translateText", "extractEntities",
                                   "processDocument", "assessLegalRisk"})
    => result.fields = SuccessFields(op)

\* C17: in summarizeDocument, askLegalQuestion and performSemanticSearch of
\* the class, when the OpenAI call fails while a Gemini key is configured
\* Gemini is called next, and the mock response is returned only when every
\* configured API has been called and has failed.
C17_GeminiAfterOpenAI ==
    (Basic /\ Finished /\ op \in GenerationOps)
    => /\ (/\ Len(calls) >= 1
           /\ calls[1].service = "openai"
           /\ calls[1].response = "transport"
           /\ Truthy(config["gemini"]))
          => (Len(calls) >= 2 /\ calls[2].service = "gemini")
       /\ IsPlaceholder =>
            \A n \in Credentialed :
                \E i \in 1..Len(calls) :
                    calls[i].service = n /\ FailedCall(i)

\* C18: in performSemanticSearch, compareDocuments and assessLegalRisk of
\* the orchestrator, when the call to the selected AI service fails and
\* the registry lists another generation provider, a second provider is
\* called before the task returns.
C18_BackupTried ==
    (/\ Finished /\ Enhanced
     /\ op \in {"performSemanticSearch", "compareDocuments",
                "assessLegalRisk"}
     /\ Len(calls) >= 1
     /\ calls[1].response = "transport"
     /\ AvailableAI \ {calls[1].service} # {})
    => Len(calls) >= 2

\* the request carries the text its operation reads
ValidRequest == op = "askLegalQuestion" \/ args.text.defined

\* C20: a generation task with a valid request returns the placeholder
\* only when every provider available to it has been called in that task
\* and has not succeeded.
C20_PlaceholderOnlyWhenExhausted ==
    (/\ Finished
     /\ op \in GenerationOps
     /\ ValidRequest
     /\ IsPlaceholder)
    => \A p \in AvailableAI :
          \E i \in 1..Len(calls) :
              calls[i].service = p /\ calls[i].response # "ok"


\* the task is suspended on a remote call
Suspended == pc \notin {"idle", "done"}

\* C15: every task eventually completes: a call that is never answered
\* expires and the task goes on, so that a suspended task always reaches
\* its return.
C15_TaskCompletes == Suspended ~> Finished

\* C21: within a task no generation provider is invoked twice (a failed
\* provider is not retried, the primary is not taken again as a backup),
\* and the number of generation calls of the task does not exceed the number
\* of available generation providers.
C21_EachProviderOnce ==
    (op \in RouterOps)
    => /\ \A i, j \in 1..Len(calls) :
            i # j => calls[i].service # calls[j].service
       /\ Len(calls) <= Cardinality(AvailableAI)

\* a question went through the primary and two backups, none twice
C21_Witness ==
    /\ Finished /\ Enhanced
    /\ op = "askLegalQuestion"
    /\ Len(calls) = 3
    /\ calls[1].service = aiService
    /\ \A i \in 1..3 : calls[i].response # "ok"

\* the caller received what provider p generated
ReturnsSuccessOf(p) ==
    IF op = "assessLegalRisk"
    THEN /\ result.status = "returned"
         /\ result.source = p
         /\ result.fields = RiskFields
    ELSE ResultFrom(p)

\* C22: once a call of a task has succeeded the task invokes no further
\* provider (the successful call is the last one of the task), and the
\* result the task returns is that success.
C22_StopsAtFirstSuccess ==
    (op \notin {"none", "testAPIConnection"})
    => \A i \in 1..Len(calls) :
          calls[i].response = "ok"
          => /\ i = Len(calls)
             /\ (Finished /\ op \in RouterOps)
                => ReturnsSuccessOf(calls[i].service)

\* the first backup answered a question after the primary gave nothing, and
\* a further available provider was left alone
C22_Witness ==
    /\ Finished /\ Enhanced
    /\ op = "askLegalQuestion"
    /\ Len(calls) = 2
    /\ calls[1].response = "empty"
    /\ calls[2].response = "ok"
    /\ ResultFrom(calls[2].service)
    /\ Cardinality(AvailableAI) >= 3

\* C23: for askLegalQuestion and summarizeDocument, whatever the set of
\* available providers, the providers a task attempts (the selected
\* primary, then the backups taken from AI_STRATEGY.BACKUP_AI) are, in
\* order, the first ones of the task's preference order restricted to the
\* available providers.
C23_AttemptsInPreferenceOrder ==
    (Enhanced /\ op \in {"askLegalQuestion", "summarizeDocument"})
    => LET order == PreferredAvailable(op, AvailableAI)
       IN  /\ Len(calls) <= Len(order)
           /\ \A i \in 1..Len(calls) : calls[i].service = order[i]

\* a summary went to OpenAI, then Gemini, then Anthropic, although
\* BACKUP_AI starts with Gemini
C23_Witness ==
    /\ Finished /\ Enhanced
    /\ op = "summarizeDocument"
    /\ Len(calls) = 3
    /\ calls[1].service = "openai"
    /\ calls[2].service = "gemini"
    /\ calls[3].service = "anthropic"

\* the remote calls of the task that have not been answered
InFlight ==
    {<<"provider", i>> : i \in {j \in 1..Len(calls) :
                                  calls[j].response = "pending"}}
    \cup {<<"enrichment", i>> : i \in {j \in 1..Len(nlpCalls) :
                                         nlpCalls[j].response = "pending"}}

\* C24: at most one remote call of a task, enrichment or provider, is in
\* flight at any time: every call before the latest one has been answered,
\* and a later generation provider is invoked only after the earlier ones
\* have answered and none of them has produced a text.
C24_OneCallInFlight ==
    /\ Cardinality(InFlight) <= 1
    /\ \A i \in 1..Len(calls) :
          i < Len(calls) => calls[i].response # "pending"
    /\ op \in RouterOps =>
          \A i \in 1..Len(calls) :
              i < Len(calls) => calls[i].response \notin {"pending", "ok"}

\* the enrichment and the primary of a question have answered and its
\* backup is the only call in flight
C24_Witness ==
    /\ Enhanced
    /\ op = "askLegalQuestion"
    /\ pc = "backup"
    /\ Len(nlpCalls) = 1
    /\ Len(calls) = 2
    /\ InFlight = {<<"provider", 2>>}

\* C25: when the enrichment call of a task has failed, the request the task
\* passes to its provider is the one it would pass with the enrichment
\* unavailable: no entity or sentiment text has been added to it.
C25_FailedEnrichmentAddsNothing ==
    (/\ Enhanced
     /\ op \in {"askLegalQuestion", "summarizeDocument", "translateText"}
     /\ Len(nlpCalls) >= 1
     /\ nlpCalls[1].response = "transport"
     /\ Len(calls) >= 1)
    => enrich = NoEnrichment

\* C26: in every reachable state, whatever setAPIKeys, loadAPIKeys and
\* initializeServices did before or during the task, every remote call to
\* a provider that takes a credential was made with a non-empty credential:
\* the key read at the moment of the call.  (MyMemory takes none.)
C26_CallsCarryCredential ==
    /\ \A i \in 1..Len(calls) :
          calls[i].service # "mymemory" => Truthy(calls[i].key)
    /\ \A i \in 1..Len(nlpCalls) : Truthy(nlpCalls[i].key)

\* a backup is called while the registry is older than the keys
C26_Witness ==
    /\ Enhanced
    /\ op = "askLegalQuestion"
    /\ pc = "backup"
    /\ Len(calls) = 2
    /\ Truthy(calls[2].key)
    /\ availableServices # initializeServices_Result(API_CONFIG)

\* the payload the enrichment of an operation analyses
Payload == IF op = "askLegalQuestion" THEN args.context ELSE args.text

\* C27: summarizeDocument, askLegalQuestion and translateText call the
\* enrichment provider at most once per task, and only when it is available
\* and the payload is longer than the minimum length.
C27_EnrichmentGuarded ==
    (/\ Enhanced
     /\ op \in {"summarizeDocument", "askLegalQuestion", "translateText"})
    => /\ Len(nlpCalls) <= 1
       /\ Len(nlpCalls) = 1 =>
            /\ availableServices.nlp
            /\ Payload.defined
            /\ Payload.len > NLP_MIN_LENGTH

\* C28: the enrichment text attached to a generation request names at most
\* 10 entities, however many the enrichment provider returned, in
\* askLegalQuestion as in summarizeDocument.
C28_AtMostTenEntities ==
    (Enhanced /\ op \in {"askLegalQuestion", "summarizeDocument"})
    => enrich.named <= ENTITY_CAP

\* the two runs made the same remote calls, in the same order
SameAttempts == twin.calls = calls /\ twin.nlpCalls = nlpCalls

SameButTimestamp(a, b) ==
    IF a.fields = RiskFields /\ b.fields = RiskFields
    THEN [a EXCEPT !.lines = <<>>] = [b EXCEPT !.lines = <<>>]
    ELSE a = b

SharedState == <<API_CONFIG, localStorage, availableServices, config>>

DocumentedValid(cfg) ==
    /\ \/ cfg["OPENAI"] # NoKey \/ cfg["GEMINI"] # NoKey
       \/ cfg["ANTHROPIC"] # NoKey \/ cfg["HUGGINGFACE"] # NoKey
    /\ cfg["GOOGLE_TRANSLATE"] # NoKey

\* C31: the value returned by loadAPIKeys and setAPIKeys (that of
\* validateAPIKeys) is true if and only if at least one of the OpenAI,
\* Gemini, Anthropic and Hugging Face keys is non-empty and the Google
\* Translate key is non-empty.
C31_ValidIffAIAndTranslate ==
    Enhanced => (validated <=> DocumentedValid(API_CONFIG))

\* setAPIKeys has returned true after the page was loaded: it supplied the
\* translation key, which the registry built at load does not list yet
C31_Witness ==
    /\ Enhanced /\ domLoaded
    /\ validated
    /\ API_CONFIG["GOOGLE_TRANSLATE"] # NoKey
    /\ ~availableServices.translation

\* C32: setAPIKeys(keys) overwrites exactly the credentials for which keys
\* holds a non-empty value and leaves every other credential as it was, and
\* no step of setAPIKeys or loadAPIKeys turns a non-empty credential into
\* an empty one.
C32_KeysOnlyAdded ==
    [][/\ \A keys \in KeyArguments \cup ReplacementKeys :
            setAPIKeys_With(keys) =>
                \A s \in Slots :
                    API_CONFIG'[s] = IF keys[s] # NoKey THEN keys[s]
                                     ELSE API_CONFIG[s]
       /\ \A s \in Slots : API_CONFIG[s] # NoKey => API_CONFIG'[s] # NoKey
      ]_vars

\* setAPIKeys has replaced the OpenAI key and left the Gemini key, which
\* the browser has not stored, in place
C32_Witness ==
    /\ API_CONFIG["OPENAI"] = "k2"
    /\ API_CONFIG["GEMINI"] = "k"
    /\ localStorage["GEMINI"] = NoKey
    /\ API_CONFIG["ANTHROPIC"] = NoKey

\* C33: when Document AI is configured and its call fails, the result of
\* processDocument carries as extractedText the text read directly from the
\* file, as it does when Document AI is not configured.
C33_FailedDocumentAIReadsFile ==
    (/\ Enhanced /\ Finished
     /\ op = "processDocument"
     /\ Len(calls) = 1
     /\ calls[1].service = "documentai"
     /\ calls[1].response = "transport")
    => /\ result.fields = DocumentFields
       /\ result.value = _extractTextFallback(args.text).value

\* C34: with no text-generation provider in the registry, askLegalQuestion
\* and summarizeDocument return the placeholder without a remote call, the
\* enrichment call included.
C34_NoProviderNoRemoteCall ==
    (/\ Enhanced /\ Finished
     /\ op \in {"askLegalQuestion", "summarizeDocument"}
     /\ availableServices.ai = <<>>)
    => /\ IsPlaceholder
       /\ calls = <<>>
       /\ nlpCalls = <<>>

\* some source of the search has produced a non-empty result
SomeSourceHasContent ==
    \E i \in 1..Len(searchResults) : TruthyValue(searchResults[i].results)

\* C35: performSemanticSearch of the orchestrator returns a combined result
\* only if some source produced a non-empty result in that call, and
\* returns the fallback search placeholder whenever no source did.
C35_CombinedOnlyWithContent ==
    (Enhanced /\ Finished /\ op = "performSemanticSearch")
    => /\ result.source = "combined" => SomeSourceHasContent
       /\ ~SomeSourceHasContent => IsPlaceholder

=============================================================================
